---- MODULE Spec2Model ----
(***************************************************************************)
(* Resource handlers of the AWS Terraform provider:                        *)
(*   - aws_macie2_organization_admin_account (Create / Read / Delete),     *)
(*   - aws_lexv2models_slot (Create / Read / Update / Delete / Import),    *)
(*   - aws_grafana_workspace_saml_configuration (Upsert / Read / Delete).  *)
(* Every behaviour exercises one resource (svc); the AWS side answers each *)
(* API call nondeterministically.                                          *)
(***************************************************************************)
EXTENDS Integers, Sequences, FiniteSets, TLC

VARIABLES svc, macie, lex, grafana

vars == <<svc, macie, lex, grafana>>

(***************************************************************************)
(* Bounds of the model.                                                    *)
(***************************************************************************)
\* attempts the retry loop of the Macie Create can start before its
\* 4-minute timeout has certainly fired
MaxAttempts == 3
\* pages a ListOrganizationAdminAccounts listing can have
MaxPages == 2
\* refreshes a Grafana waiter can make before its timeout has certainly fired
MaxPolls == 2

(***************************************************************************)
(* Errors.  An error is [code, msg]; NoErr is Go's nil error.              *)
(***************************************************************************)
NoErr == [code |-> "", msg |-> ""]

Err(code, msg) == [code |-> code, msg |-> msg]

MsgNotEnabled == "Macie is not enabled"

MsgNotEnabledLong == "User is not authorized: Macie is not enabled for the account"

MsgOther == "internal failure"

\* strings.Contains(msg, sub) on the messages of the model
StringsContains(msg, sub) ==
    \/ msg = sub
    \/ sub = MsgNotEnabled /\ msg = MsgNotEnabledLong

\* the error an API call of the Macie service can return
MacieErrors ==
    { Err("ClientError", MsgOther),
      Err("ClientError", MsgNotEnabled),
      Err("ResourceNotFoundException", MsgOther),
      Err("AccessDeniedException", MsgNotEnabled),
      Err("AccessDeniedException", MsgNotEnabledLong),
      Err("AccessDeniedException", MsgOther),
      Err("InternalServerException", MsgNotEnabled),
      Err("InternalServerException", MsgOther) }

MacieResults == {NoErr} \cup MacieErrors

\* tfawserr.ErrCodeEquals(err, code)
ErrCodeEquals(err, code) == err # NoErr /\ err.code = code

\* tfawserr.ErrMessageContains(err, code, message)
ErrMessageContains(err, code, message) ==
    err # NoErr /\ err.code = code /\ StringsContains(err.msg, message)

\* errs.IsA[*awstypes.ResourceNotFoundException](err)
IsResourceNotFound(err) == err # NoErr /\ err.code = "ResourceNotFoundException"

\* the *retry.TimeoutError RetryContext returns when the timeout fired and no
\* attempt has completed (its LastError is nil)
TimeoutError == [code |-> "retry.TimeoutError", msg |-> "timeout while waiting for state to become 'success'"]

\* tfresource.TimedOut(err): err is a *retry.TimeoutError with no LastError
TimedOut(err) == err = TimeoutError

(***************************************************************************)
(* Macie: organization admin account.                                      *)
(***************************************************************************)
AccountIds == {"111", "222"}

\* IDs a user can import: any string
ImportIds == AccountIds \cup {"999"}

\* id.UniqueId() values
Tokens == {"tok1", "tok2"}

NilAccount == [isNil |-> TRUE, AccountId |-> "", Status |-> ""]

Account(id, status) == [isNil |-> FALSE, AccountId |-> id, Status |-> status]

\* a nil *ListOrganizationAdminAccountsOutput
NilPage == [isNil |-> TRUE, AdminAccounts |-> <<>>]

Page(accounts) == [isNil |-> FALSE, AdminAccounts |-> accounts]

\* the pages the service can answer with
PageChoices ==
    { NilPage,
      Page(<<>>),
      Page(<<Account("222", "ENABLED")>>),
      Page(<<NilAccount, Account("111", "ENABLED")>>),
      Page(<<Account("222", "ENABLED"), Account("111", "DISABLING_IN_PROGRESS")>>),
      Page(<<Account("111", "ENABLED"), Account("111", "DISABLING_IN_PROGRESS")>>) }

RECURSIVE SeqsUpTo(_, _)
\* the sequences over S of length 1..n
SeqsUpTo(S, n) ==
    IF n = 0 THEN {}
    ELSE LET shorter == SeqsUpTo(S, n - 1)
         IN  {<<x>> : x \in S} \cup shorter \cup {Append(s, x) : s \in shorter, x \in S}

\* a listing: its pages, and the page whose request fails (0: none) with failErr
Listings ==
    { [pages |-> p, failAt |-> k, failErr |-> e] :
        p \in SeqsUpTo(PageChoices, MaxPages), k \in {0}, e \in {NoErr} }
    \cup
    { [pages |-> p, failAt |-> k, failErr |-> e] :
        p \in SeqsUpTo(PageChoices, MaxPages), k \in 1..MaxPages, e \in MacieErrors }

\* mutant: a nil entry ends the search of the page
FirstMatch_StopAtNil(accounts, i, adminAccountID) ==
    LET upto == {k \in i..Len(accounts) :
                   \A m \in i..k : ~accounts[m].isNil}
        hits == {k \in upto : accounts[k].AccountId = adminAccountID}
    IN  IF hits = {} THEN NilAccount
        ELSE accounts[CHOOSE k \in hits : \A m \in hits : k <= m]

RECURSIVE FirstMatch(_, _, _)
\* the loop over page.AdminAccounts: the first non-nil entry whose AccountId
\* is adminAccountID, NilAccount when there is none
FirstMatch(accounts, i, adminAccountID) ==
    IF i > Len(accounts) THEN NilAccount
    ELSE IF accounts[i].isNil THEN FirstMatch(accounts, i + 1, adminAccountID)
    ELSE IF accounts[i].AccountId = adminAccountID THEN accounts[i]
    ELSE FirstMatch(accounts, i + 1, adminAccountID)

RECURSIVE ListPages(_, _, _)
\* conn.ListOrganizationAdminAccountsPages with the callback of
\* GetOrganizationAdminAccount, from page i on: res, err and the number of
\* pages requested
ListPages(listing, i, adminAccountID) ==
    IF i > Len(listing.pages)
    THEN [res |-> NilAccount, err |-> NoErr, fetched |-> Len(listing.pages)]
    ELSE IF listing.failAt = i
    THEN [res |-> NilAccount, err |-> listing.failErr, fetched |-> i]
    ELSE LET page == listing.pages[i]
             lastPage == (i = Len(listing.pages))
             found == IF page.isNil THEN NilAccount
                      ELSE FirstMatch(page.AdminAccounts, 1, adminAccountID)
         IN  IF ~found.isNil
             THEN [res |-> found, err |-> NoErr, fetched |-> i]
             ELSE IF lastPage
             THEN [res |-> NilAccount, err |-> NoErr, fetched |-> i]
             ELSE ListPages(listing, i + 1, adminAccountID)

GetOrganizationAdminAccount(listing, adminAccountID) ==
    ListPages(listing, 1, adminAccountID)

\* the "not found, removing from state" condition on the error of the listing
MacieReadGoneErr(err) ==
    \/ IsResourceNotFound(err)
    \/ ErrMessageContains(err, "AccessDeniedException", MsgNotEnabled)

\* mutant: a new resource is treated like one that is in the state
ReadOutcome_IgnoreIsNew(id, attr, isNew, listing) ==
    LET got == GetOrganizationAdminAccount(listing, id)
    IN  IF MacieReadGoneErr(got.err)
        THEN [id |-> "", attr |-> attr, diag |-> "none", got |-> got]
        ELSE IF got.err # NoErr
        THEN [id |-> id, attr |-> attr, diag |-> "error", got |-> got]
        ELSE IF got.res.isNil
        THEN [id |-> "", attr |-> attr, diag |-> "none", got |-> got]
        ELSE [id |-> id, attr |-> got.res.AccountId, diag |-> "none", got |-> got]

\* mutant: admin_account_id is not written
ReadOutcome_KeepAttr(id, attr, isNew, listing) ==
    LET got == GetOrganizationAdminAccount(listing, id)
    IN  IF ~isNew /\ MacieReadGoneErr(got.err)
        THEN [id |-> "", attr |-> attr, diag |-> "none", got |-> got]
        ELSE IF got.err # NoErr
        THEN [id |-> id, attr |-> attr, diag |-> "error", got |-> got]
        ELSE IF got.res.isNil
        THEN IF ~isNew
             THEN [id |-> "", attr |-> attr, diag |-> "none", got |-> got]
             ELSE [id |-> id, attr |-> attr, diag |-> "error", got |-> got]
        ELSE [id |-> id, attr |-> attr, diag |-> "none", got |-> got]

\* resourceOrganizationAdminAccountRead on resource data d = [id, attr, isNew]:
\* the new id, admin_account_id and diagnostics
ReadOutcome(id, attr, isNew, listing) ==
    LET got == GetOrganizationAdminAccount(listing, id)
    IN  IF ~isNew /\ MacieReadGoneErr(got.err)
        THEN [id |-> "", attr |-> attr, diag |-> "none", got |-> got]
        ELSE IF got.err # NoErr
        THEN [id |-> id, attr |-> attr, diag |-> "error", got |-> got]
        ELSE IF got.res.isNil
        THEN IF ~isNew
             THEN [id |-> "", attr |-> attr, diag |-> "none", got |-> got]
             ELSE [id |-> id, attr |-> attr, diag |-> "error", got |-> got]
        ELSE [id |-> id, attr |-> got.res.AccountId, diag |-> "none", got |-> got]

\* the API calls of the handler that is running or ran last
MacieCall(api, id, token, phase, code) ==
    [api |-> api, AdminAccountId |-> id, ClientToken |-> token, phase |-> phase, code |-> code]

NoListing == [pages |-> <<>>, failAt |-> 0, failErr |-> NoErr]

NoGot == [res |-> NilAccount, err |-> NoErr, fetched |-> 0]

MacieInit ==
    macie = [ pc |-> "idle", op |-> "none", id |-> "", cfg |-> "", attr |-> "",
              isNew |-> FALSE, token |-> "", resultErr |-> NoErr, err |-> NoErr,
              loopEnd |-> "", calls |-> <<>>, diag |-> "none",
              listing |-> NoListing, got |-> NoGot ]

\* the fields every handler starts from
MacieFresh(op, id, cfg, attr, isNew, token) ==
    [ pc |-> "idle", op |-> op, id |-> id, cfg |-> cfg, attr |-> attr,
      isNew |-> isNew, token |-> token, resultErr |-> NoErr, err |-> NoErr,
      loopEnd |-> "", calls |-> <<>>, diag |-> "none",
      listing |-> NoListing, got |-> NoGot ]

LoopCalls(calls) == SelectSeq(calls, LAMBDA c : c.phase = "loop")

ExtraCalls(calls) == SelectSeq(calls, LAMBDA c : c.phase = "extra")

\* mutant: every error is retried
IsRetryable_AnyError(err) == err # NoErr

\* the classification of the retry function: RetryableError for ClientError
IsRetryable(err) == ErrCodeEquals(err, "ClientError")

\* what retry.RetryContext returns when its timeout fires: the error of the
\* last completed attempt when there is one (resultErr takes precedence over
\* the wait's error), the wait's TimeoutError otherwise
RetryContextTimeout(resultErr) ==
    IF resultErr = NoErr THEN TimeoutError ELSE resultErr

\* Create, lines 47-52: the input is built once, with a fresh ClientToken
MacieCreateStart ==
    /\ svc = "macie"
    /\ macie.pc = "idle"
    /\ macie.id = ""
    /\ \E adminAccountID \in AccountIds, tok \in Tokens :
         macie' = [MacieFresh("create", "", adminAccountID, adminAccountID, TRUE, tok)
                     EXCEPT !.pc = "retry_start"]
    /\ UNCHANGED <<svc, lex, grafana>>

\* mutant: every attempt gets a token of its own
MacieEnableSend_NewToken ==
    /\ svc = "macie"
    /\ macie.pc \in {"retry_start", "retry_wait"}
    /\ Len(LoopCalls(macie.calls)) < MaxAttempts
    /\ \E tok \in Tokens :
         macie' = [macie EXCEPT
                     !.pc = "retry_inflight",
                     !.calls = Append(@, MacieCall("Enable", macie.cfg, tok, "loop", "inflight"))]
    /\ UNCHANGED <<svc, lex, grafana>>

\* the retry function starts an attempt: conn.EnableOrganizationAdminAccount
MacieEnableSend ==
    /\ svc = "macie"
    /\ macie.pc \in {"retry_start", "retry_wait"}
    /\ Len(LoopCalls(macie.calls)) < MaxAttempts
    /\ macie' = [macie EXCEPT
                   !.pc = "retry_inflight",
                   !.calls = Append(@, MacieCall("Enable", macie.cfg, macie.token, "loop", "inflight"))]
    /\ UNCHANGED <<svc, lex, grafana>>

\* the attempt returns; the retry function classifies its error
MacieEnableReturn ==
    /\ svc = "macie"
    /\ macie.pc = "retry_inflight"
    /\ \E r \in MacieResults :
         LET logged == [macie.calls EXCEPT ![Len(macie.calls)].code =
                                             IF r = NoErr THEN "ok" ELSE r.code]
         IN  IF r = NoErr
             THEN macie' = [macie EXCEPT !.calls = logged, !.resultErr = NoErr,
                                         !.err = NoErr, !.loopEnd = "success",
                                         !.pc = "after_retry"]
             ELSE IF IsRetryable(r)
             THEN macie' = [macie EXCEPT !.calls = logged, !.resultErr = r,
                                         !.pc = "retry_wait"]
             ELSE macie' = [macie EXCEPT !.calls = logged, !.resultErr = r,
                                         !.err = r, !.loopEnd = "nonretryable",
                                         !.pc = "after_retry"]
    /\ UNCHANGED <<svc, lex, grafana>>

\* the 4-minute timeout fires, between two attempts or during one that does
\* not return within the grace period
MacieRetryTimeout ==
    /\ svc = "macie"
    /\ macie.pc \in {"retry_wait", "retry_inflight"}
    /\ macie' = [macie EXCEPT
                   !.calls = IF macie.pc = "retry_inflight"
                             THEN [@ EXCEPT ![Len(@)].code = "abandoned"]
                             ELSE @,
                   !.err = RetryContextTimeout(macie.resultErr),
                   !.loopEnd = "timeout",
                   !.pc = "after_retry"]
    /\ UNCHANGED <<svc, lex, grafana>>

\* Create, lines 69-71: one more call when the error is a timeout
MacieCreateTimedOut ==
    /\ svc = "macie"
    /\ macie.pc = "after_retry"
    /\ IF TimedOut(macie.err)
       THEN \E r \in MacieResults :
              macie' = [macie EXCEPT
                          !.calls = Append(@, MacieCall("Enable", macie.cfg, macie.token, "extra",
                                                        IF r = NoErr THEN "ok" ELSE r.code)),
                          !.err = r,
                          !.pc = "check_err"]
       ELSE macie' = [macie EXCEPT !.pc = "check_err"]
    /\ UNCHANGED <<svc, lex, grafana>>

\* mutant: the ID is set before the error is looked at
MacieCreateCheckErr_SetIdFirst ==
    /\ svc = "macie"
    /\ macie.pc = "check_err"
    /\ IF macie.err # NoErr
       THEN macie' = [macie EXCEPT !.id = macie.cfg, !.diag = "error", !.pc = "done"]
       ELSE macie' = [macie EXCEPT !.id = macie.cfg, !.pc = "read"]
    /\ UNCHANGED <<svc, lex, grafana>>

\* Create, lines 73-77: fail on an error, else d.SetId(adminAccountID)
MacieCreateCheckErr ==
    /\ svc = "macie"
    /\ macie.pc = "check_err"
    /\ IF macie.err # NoErr
       THEN macie' = [macie EXCEPT !.diag = "error", !.pc = "done"]
       ELSE macie' = [macie EXCEPT !.id = macie.cfg, !.pc = "read"]
    /\ UNCHANGED <<svc, lex, grafana>>

\* the Read a handler runs: one listing, then the outcome of Read
MacieApplyRead(d, listing) ==
    LET out == ReadOutcome(d.id, d.attr, d.isNew, listing)
    IN  [d EXCEPT !.id = out.id, !.attr = out.attr, !.diag = out.diag,
                  !.listing = listing, !.got = out.got,
                  !.calls = Append(@, MacieCall("List", d.id, "", "read",
                                               IF out.got.err = NoErr THEN "ok" ELSE out.got.err.code)),
                  !.pc = "done"]

\* Create, line 79: Read of the new resource
MacieCreateRead ==
    /\ svc = "macie"
    /\ macie.pc = "read"
    /\ \E listing \in Listings : macie' = MacieApplyRead(macie, listing)
    /\ UNCHANGED <<svc, lex, grafana>>

\* Read of a resource that is in the state (refresh)
MacieRead ==
    /\ svc = "macie"
    /\ macie.pc = "idle"
    /\ macie.id # ""
    /\ \E listing \in Listings :
         macie' = MacieApplyRead(MacieFresh("read", macie.id, macie.cfg, macie.attr, FALSE, ""), listing)
    /\ UNCHANGED <<svc, lex, grafana>>

\* schema.ImportStatePassthroughContext: the ID is the string the user gave
MacieImport ==
    /\ svc = "macie"
    /\ macie.pc = "idle"
    /\ macie.id = ""
    /\ \E id \in ImportIds :
         macie' = [MacieFresh("import", id, "", "", FALSE, "") EXCEPT !.pc = "done"]
    /\ UNCHANGED <<svc, lex, grafana>>

\* mutant: only ResourceNotFoundException counts as already absent
MacieDeleteDiag_OnlyNotFound(err) ==
    IF err # NoErr
    THEN IF IsResourceNotFound(err) THEN "none" ELSE "error"
    ELSE "none"

\* what Delete returns for the result of DisableOrganizationAdminAccount
MacieDeleteDiag(err) ==
    IF err # NoErr
    THEN IF IsResourceNotFound(err) \/ ErrMessageContains(err, "AccessDeniedException", MsgNotEnabled)
         THEN "none"
         ELSE "error"
    ELSE "none"

\* Delete; the SDK removes the resource from the state when Delete returns
\* no error
MacieDelete ==
    /\ svc = "macie"
    /\ macie.pc = "idle"
    /\ macie.id # ""
    /\ \E r \in MacieResults :
         LET d == MacieFresh("delete", macie.id, macie.cfg, macie.attr, FALSE, "")
             diag == MacieDeleteDiag(r)
         IN  macie' = [d EXCEPT
                         !.calls = <<MacieCall("Disable", macie.id, "", "delete",
                                               IF r = NoErr THEN "ok" ELSE r.code)>>,
                         !.err = r,
                         !.diag = diag,
                         !.id = IF diag = "none" THEN "" ELSE @,
                         !.pc = "done"]
    /\ UNCHANGED <<svc, lex, grafana>>

\* the handler returns to the SDK, which keeps the resource data
MacieReturn ==
    /\ svc = "macie"
    /\ macie.pc = "done"
    /\ macie' = MacieFresh("none", macie.id, macie.cfg, macie.attr, FALSE, "")
    /\ UNCHANGED <<svc, lex, grafana>>

MacieNext ==
    \/ MacieCreateStart
    \/ MacieEnableSend
    \/ MacieEnableReturn
    \/ MacieRetryTimeout
    \/ MacieCreateTimedOut
    \/ MacieCreateCheckErr
    \/ MacieCreateRead
    \/ MacieRead
    \/ MacieImport
    \/ MacieDelete
    \/ MacieReturn

(***************************************************************************)
(* Lex V2: slot.  Identifiers are strings, modelled as sequences of        *)
(* characters; attribute values are opaque tokens ("null": not set).       *)
(***************************************************************************)
slotIDPartCount == 5

\* flex.ResourceIdSeparator
ResourceIdSeparator == ","

RECURSIVE StringsJoin(_, _)
\* strings.Join(parts, sep)
StringsJoin(parts, sep) ==
    IF Len(parts) = 0 THEN <<>>
    ELSE IF Len(parts) = 1 THEN parts[1]
    ELSE parts[1] \o <<sep>> \o StringsJoin(Tail(parts), sep)

RECURSIVE StringsSplit(_, _)
\* strings.Split(s, sep) for a one-character separator
StringsSplit(s, sep) ==
    IF \A i \in 1..Len(s) : s[i] # sep THEN <<s>>
    ELSE LET k == CHOOSE i \in 1..Len(s) : s[i] = sep /\ \A j \in 1..(i - 1) : s[j] # sep
         IN  <<SubSeq(s, 1, k - 1)>> \o StringsSplit(SubSeq(s, k + 1, Len(s)), sep)

\* the checks FlattenResourceId and ExpandResourceId make on the parts
ResourceIdPartsOk(idParts, partCount, allowEmptyPart) ==
    /\ Len(idParts) > 1
    /\ Len(idParts) = partCount
    /\ allowEmptyPart \/ \A i \in 1..Len(idParts) : idParts[i] # <<>>

ErrIdFormat == [code |-> "flex.UnexpectedIdFormat", msg |-> "unexpected format for ID"]

\* intflex.FlattenResourceId(idParts, partCount, allowEmptyPart)
FlattenResourceId(idParts, partCount, allowEmptyPart) ==
    IF ResourceIdPartsOk(idParts, partCount, allowEmptyPart)
    THEN [id |-> StringsJoin(idParts, ResourceIdSeparator), err |-> NoErr]
    ELSE [id |-> <<>>, err |-> ErrIdFormat]

\* intflex.ExpandResourceId(id, partCount, allowEmptyPart)
ExpandResourceId(id, partCount, allowEmptyPart) ==
    LET idParts == StringsSplit(id, ResourceIdSeparator)
    IN  IF ResourceIdPartsOk(idParts, partCount, allowEmptyPart)
        THEN [parts |-> idParts, err |-> NoErr]
        ELSE [parts |-> <<>>, err |-> ErrIdFormat]

\* the identifiers the Lex service gives out (<<>>: a nil pointer, which
\* aws.ToString turns into ""); none holds the separator
BotIds == {<<>>, <<"a">>, <<"b", "1">>}

BotVersions == {<<>>, <<"1">>}

IntentIds == {<<>>, <<"e">>}

LocaleIds == {<<>>, <<"u">>}

SlotIds == {<<>>, <<"a">>, <<"s">>}

\* the strings a user imports as ID
LexImportIds ==
    { <<"a", ",", "1", ",", "e", ",", "u", ",", "s">>,
      <<"a", ",", "1", ",", "e", ",", "u">>,
      <<"a", ",", "1", ",", "e", ",", "u", ",", "s", ",", "x">>,
      <<"a", ",", ",", "e", ",", "u", ",", "s">>,
      <<"a">> }

Descriptions == {"null", "d"}

SlotTypeIds == {"null", "t"}

MultipleValuesSettings == {"null", "m"}

ObfuscationSettings == {"null", "o"}

ValueElicitationSettings == {"v1", "v2"}

\* resourceSlotData
SlotData(id, botId, botVersion, intentId, localeId, name, d, t, m, o, v) ==
    [ ID |-> id, BotID |-> botId, BotVersion |-> botVersion, IntentID |-> intentId,
      LocaleID |-> localeId, Name |-> name, Description |-> d, SlotTypeID |-> t,
      MultipleValuesSetting |-> m, ObfuscationSetting |-> o,
      ValueElicitationSettings |-> v ]

NullSlot == SlotData(<<>>, <<>>, <<>>, <<>>, <<>>, "null", "null", "null", "null", "null", "null")

\* the plans of a Create: the configuration, ID unknown
CreatePlans ==
    { SlotData(<<>>, <<"a">>, <<"1">>, <<"e">>, <<"u">>, "slot", d, t, m, o, v) :
        d \in Descriptions, t \in SlotTypeIds, m \in MultipleValuesSettings,
        o \in ObfuscationSettings, v \in ValueElicitationSettings }

\* the plans of an Update of state: the attributes marked RequiresReplace and
\* the ID are the state's, the others are the configuration's
UpdatePlans(state) ==
    { [state EXCEPT !.Description = d, !.SlotTypeID = t, !.MultipleValuesSetting = m,
                    !.ObfuscationSetting = o, !.ValueElicitationSettings = v] :
        d \in Descriptions, t \in SlotTypeIds, m \in MultipleValuesSettings,
        o \in ObfuscationSettings, v \in ValueElicitationSettings }

LexErrors ==
    { Err("ResourceNotFoundException", MsgOther),
      Err("ThrottlingException", MsgOther),
      Err("ValidationException", MsgOther) }

\* an output of CreateSlot, DescribeSlot or UpdateSlot (isNil: a nil output)
SlotOutput(botId, botVersion, intentId, localeId, slotId, data) ==
    [ isNil |-> FALSE, BotId |-> botId, BotVersion |-> botVersion, IntentId |-> intentId,
      LocaleId |-> localeId, SlotId |-> slotId, Description |-> data.Description,
      SlotTypeId |-> data.SlotTypeID, MultipleValuesSetting |-> data.MultipleValuesSetting,
      ObfuscationSetting |-> data.ObfuscationSetting,
      ValueElicitationSetting |-> data.ValueElicitationSettings ]

NilOutput ==
    [ isNil |-> TRUE, BotId |-> <<>>, BotVersion |-> <<>>, IntentId |-> <<>>,
      LocaleId |-> <<>>, SlotId |-> <<>>, Description |-> "null", SlotTypeId |-> "null",
      MultipleValuesSetting |-> "null", ObfuscationSetting |-> "null",
      ValueElicitationSetting |-> "null" ]

\* what CreateSlot can answer to a request made from plan: the identifiers
\* are the service's, the settings are the requested ones
CreateSlotOutputs(plan) ==
    { SlotOutput(b, bv, i, l, s, plan) :
        b \in BotIds, bv \in BotVersions, i \in IntentIds, l \in LocaleIds, s \in SlotIds }

\* flex.Flatten(ctx, out, &data): the fields of data that out has by name
\* (ID and Name have no counterpart in out)
FlattenSlot(out, data) ==
    [ data EXCEPT !.BotID = out.BotId, !.BotVersion = out.BotVersion,
                  !.IntentID = out.IntentId, !.LocaleID = out.LocaleId,
                  !.Description = out.Description, !.SlotTypeID = out.SlotTypeId,
                  !.MultipleValuesSetting = out.MultipleValuesSetting,
                  !.ObfuscationSetting = out.ObfuscationSetting,
                  !.ValueElicitationSettings = out.ValueElicitationSetting ]

\* mutant: BotVersion and IntentId change places
SlotIdParts_Swapped(out) ==
    <<out.BotId, out.IntentId, out.BotVersion, out.LocaleId, out.SlotId>>

\* Create, lines 563-569
SlotIdParts(out) ==
    <<out.BotId, out.BotVersion, out.IntentId, out.LocaleId, out.SlotId>>

\* the five identifiers of a DescribeSlot or DeleteSlot request
SlotKey(botId, botVersion, intentId, localeId, slotId) ==
    [ BotId |-> botId, BotVersion |-> botVersion, IntentId |-> intentId,
      LocaleId |-> localeId, SlotId |-> slotId ]

NoKey == SlotKey(<<>>, <<>>, <<>>, <<>>, <<>>)

\* findSlotByID, lines 705-711
DescribeSlotInput(parts) ==
    SlotKey(parts[1], parts[2], parts[3], parts[4], parts[5])

\* Delete, lines 673-679
DeleteSlotInput(state) ==
    SlotKey(state.ID, state.ID, state.ID, state.ID, state.ID)

LexCall(api, key, code) == [api |-> api, key |-> key, code |-> code]

ErrEmptyResult == [code |-> "tfresource.EmptyResultError", msg |-> "empty result"]

ErrNotFound == [code |-> "retry.NotFoundError", msg |-> "couldn't find resource"]

\* tfresource.NotFound(err): err is, or converts to (as an EmptyResultError
\* does), a *retry.NotFoundError
NotFound(err) == err \in {ErrNotFound, ErrEmptyResult}

\* findSlotByID for the answer (apiErr, apiOut) of DescribeSlot: the calls it
\* makes, its output and its error
findSlotByID(id, apiErr, apiOut) ==
    LET expanded == ExpandResourceId(id, slotIDPartCount, FALSE)
    IN  IF expanded.err # NoErr
        THEN [calls |-> <<>>, out |-> NilOutput, err |-> expanded.err]
        ELSE LET in == DescribeSlotInput(expanded.parts)
                 call == LexCall("DescribeSlot", in, IF apiErr = NoErr THEN "ok" ELSE apiErr.code)
             IN  IF apiErr # NoErr
                 THEN IF IsResourceNotFound(apiErr)
                      THEN [calls |-> <<call>>, out |-> NilOutput, err |-> ErrNotFound]
                      ELSE [calls |-> <<call>>, out |-> NilOutput, err |-> apiErr]
                 ELSE IF apiOut.isNil
                 THEN [calls |-> <<call>>, out |-> NilOutput, err |-> ErrEmptyResult]
                 ELSE [calls |-> <<call>>, out |-> apiOut, err |-> NoErr]

\* mutant: a change of obfuscation_setting is not looked at
slotHasChanges_NoObfuscation(plan, state) ==
    \/ plan.Description # state.Description
    \/ plan.Name # state.Name
    \/ plan.Description # state.Description
    \/ plan.SlotTypeID # state.SlotTypeID

slotHasChanges(plan, state) ==
    \/ plan.Description # state.Description
    \/ plan.Name # state.Name
    \/ plan.Description # state.Description
    \/ plan.SlotTypeID # state.SlotTypeID
    \/ plan.ObfuscationSetting # state.ObfuscationSetting

\* the fields every Lex handler starts from; origin holds the identifiers of
\* the CreateSlot output the resource in the state was created from (NoKey:
\* none, or imported)
LexFresh(op, hasState, state, origin) ==
    [ pc |-> "idle", op |-> op, hasState |-> hasState, state |-> state, origin |-> origin,
      plan |-> NullSlot, prior |-> NullSlot, out |-> NilOutput, err |-> NoErr,
      calls |-> <<>>, diag |-> "none", stateSet |-> FALSE ]

LexInit == lex = LexFresh("none", FALSE, NullSlot, NoKey)

\* Create
LexCreate ==
    /\ svc = "lex"
    /\ lex.pc = "idle"
    /\ ~lex.hasState
    /\ \E plan \in CreatePlans, apiErr \in {NoErr} \cup LexErrors :
       \E out \in IF apiErr = NoErr THEN CreateSlotOutputs(plan) \cup {NilOutput} ELSE {NilOutput} :
         LET d == [LexFresh("create", FALSE, NullSlot, NoKey) EXCEPT
                     !.pc = "done", !.plan = plan, !.out = out, !.err = apiErr,
                     !.calls = <<LexCall("CreateSlot", NoKey, IF apiErr = NoErr THEN "ok" ELSE apiErr.code)>>]
             flat == FlattenResourceId(SlotIdParts(out), slotIDPartCount, FALSE)
         IN  IF apiErr # NoErr \/ out.isNil
             THEN lex' = [d EXCEPT !.diag = "error"]
             ELSE IF flat.err # NoErr
             THEN lex' = [d EXCEPT !.diag = "error", !.err = flat.err]
             ELSE lex' = [d EXCEPT !.hasState = TRUE,
                                   !.state = FlattenSlot(out, [plan EXCEPT !.ID = flat.id]),
                                   !.origin = SlotKey(out.BotId, out.BotVersion, out.IntentId,
                                                      out.LocaleId, out.SlotId),
                                   !.stateSet = TRUE]
    /\ UNCHANGED <<svc, macie, grafana>>

\* resource.ImportStatePassthroughID: the state holds the ID alone
LexImportState ==
    /\ svc = "lex"
    /\ lex.pc = "idle"
    /\ ~lex.hasState
    /\ \E id \in LexImportIds :
         lex' = [LexFresh("import", TRUE, [NullSlot EXCEPT !.ID = id], NoKey) EXCEPT
                   !.pc = "done", !.stateSet = TRUE]
    /\ UNCHANGED <<svc, macie, grafana>>

\* what DescribeSlot can answer for the slot of state: the identifiers asked
\* for, the settings the service holds
DescribeSlotOutputs(key, state) ==
    { SlotOutput(key.BotId, key.BotVersion, key.IntentId, key.LocaleId, key.SlotId,
                 [state EXCEPT !.Description = d, !.ValueElicitationSettings = v]) :
        d \in Descriptions, v \in ValueElicitationSettings }

\* mutant: every error of findSlotByID removes the resource from the state
SlotReadResult_RemoveOnAnyError(found, state) ==
    IF found.err # NoErr
    THEN [hasState |-> FALSE, state |-> NullSlot, diag |-> "none", stateSet |-> FALSE]
    ELSE [hasState |-> TRUE, state |-> FlattenSlot(found.out, state), diag |-> "none",
          stateSet |-> TRUE]

\* Read, lines 600-616: what Read does with the answer of findSlotByID
SlotReadResult(found, state) ==
    IF NotFound(found.err)
    THEN [hasState |-> FALSE, state |-> NullSlot, diag |-> "none", stateSet |-> FALSE]
    ELSE IF found.err # NoErr
    THEN [hasState |-> TRUE, state |-> state, diag |-> "error", stateSet |-> FALSE]
    ELSE [hasState |-> TRUE, state |-> FlattenSlot(found.out, state), diag |-> "none",
          stateSet |-> TRUE]

\* Read
LexRead ==
    /\ svc = "lex"
    /\ lex.pc = "idle"
    /\ lex.hasState
    /\ \E apiErr \in {NoErr} \cup LexErrors :
       LET expanded == ExpandResourceId(lex.state.ID, slotIDPartCount, FALSE)
           key == IF expanded.err = NoErr THEN DescribeSlotInput(expanded.parts) ELSE NoKey
       IN
       \E apiOut \in IF apiErr = NoErr THEN DescribeSlotOutputs(key, lex.state) \cup {NilOutput}
                     ELSE {NilOutput} :
         LET found == findSlotByID(lex.state.ID, apiErr, apiOut)
             d == [LexFresh("read", TRUE, lex.state, lex.origin) EXCEPT
                     !.pc = "done", !.prior = lex.state, !.out = found.out,
                     !.err = found.err, !.calls = found.calls]
             res == SlotReadResult(found, lex.state)
         IN  lex' = [d EXCEPT !.hasState = res.hasState, !.state = res.state,
                              !.diag = res.diag, !.stateSet = res.stateSet]
    /\ UNCHANGED <<svc, macie, grafana>>

\* mutant: an empty output of UpdateSlot is taken for a success
UpdateSlotFailed_ErrOnly(apiErr, out) == apiErr # NoErr

\* Update, lines 639-653: UpdateSlot failed or answered with an empty output
UpdateSlotFailed(apiErr, out) == apiErr # NoErr \/ out.isNil

\* Update
LexUpdate ==
    /\ svc = "lex"
    /\ lex.pc = "idle"
    /\ lex.hasState
    /\ \E plan \in UpdatePlans(lex.state) :
         LET d == [LexFresh("update", TRUE, lex.state, lex.origin) EXCEPT
                     !.pc = "done", !.plan = plan, !.prior = lex.state]
         IN  IF slotHasChanges(plan, lex.state)
             THEN \E apiErr \in {NoErr} \cup LexErrors :
                  \E out \in IF apiErr = NoErr
                             THEN {NilOutput,
                                   SlotOutput(plan.BotID, plan.BotVersion, plan.IntentID,
                                              plan.LocaleID, plan.ID, plan)}
                             ELSE {NilOutput} :
                    LET called == [d EXCEPT
                                     !.out = out, !.err = apiErr,
                                     !.calls = <<[api |-> "UpdateSlot", key |-> NoKey,
                                                  code |-> IF apiErr = NoErr THEN "ok" ELSE apiErr.code]>>]
                    IN  IF UpdateSlotFailed(apiErr, out)
                        THEN lex' = [called EXCEPT !.diag = "error"]
                        ELSE lex' = [called EXCEPT !.state = plan, !.stateSet = TRUE]
             ELSE lex' = [d EXCEPT !.state = plan, !.stateSet = TRUE]
    /\ UNCHANGED <<svc, macie, grafana>>

\* what Delete reports for the result of DeleteSlot
LexDeleteDiag(err) ==
    IF err # NoErr
    THEN IF IsResourceNotFound(err) THEN "none" ELSE "error"
    ELSE "none"

\* Delete; the framework removes the resource from the state when Delete
\* adds no error diagnostic
LexDelete ==
    /\ svc = "lex"
    /\ lex.pc = "idle"
    /\ lex.hasState
    /\ \E apiErr \in {NoErr} \cup LexErrors :
         LET diag == LexDeleteDiag(apiErr)
             d == [LexFresh("delete", TRUE, lex.state, lex.origin) EXCEPT
                     !.pc = "done", !.prior = lex.state, !.err = apiErr, !.diag = diag,
                     !.calls = <<LexCall("DeleteSlot", DeleteSlotInput(lex.state),
                                         IF apiErr = NoErr THEN "ok" ELSE apiErr.code)>>]
         IN  IF diag = "none"
             THEN lex' = [d EXCEPT !.hasState = FALSE, !.state = NullSlot]
             ELSE lex' = d
    /\ UNCHANGED <<svc, macie, grafana>>

\* the handler returns to the framework, which keeps the state
LexReturn ==
    /\ svc = "lex"
    /\ lex.pc = "done"
    /\ lex' = LexFresh("none", lex.hasState, lex.state,
                        IF lex.hasState THEN lex.origin ELSE NoKey)
    /\ UNCHANGED <<svc, macie, grafana>>

LexNext ==
    \/ LexCreate
    \/ LexImportState
    \/ LexRead
    \/ LexUpdate
    \/ LexDelete
    \/ LexReturn

(***************************************************************************)
(* Grafana: workspace SAML configuration.                                  *)
(***************************************************************************)
WorkspaceIds == {"g-1", "g-2"}

\* workspace.Authentication.Providers
ProviderLists == {<<"SAML">>, <<"AWS_SSO", "SAML">>}

\* values of an optional string attribute ("": not set)
AssertionValues == {"", "x"}

RoleValueLists == {<<>>, <<"admin">>}

\* the configurations of the resource
SamlConfigs ==
    { [ workspace_id |-> w, editor_role_values |-> <<"editor">>, admin_role_values |-> ar,
        allowed_organizations |-> ao, email_assertion |-> e, groups_assertion |-> g,
        login_assertion |-> l, name_assertion |-> n, org_assertion |-> o,
        role_assertion |-> r ] :
        w \in WorkspaceIds, ar \in RoleValueLists, ao \in {<<>>, <<"org">>},
        e \in AssertionValues, g \in AssertionValues, l \in AssertionValues,
        n \in AssertionValues, o \in AssertionValues, r \in AssertionValues }

NoConfig ==
    [ workspace_id |-> "", editor_role_values |-> <<>>, admin_role_values |-> <<>>,
      allowed_organizations |-> <<>>, email_assertion |-> "", groups_assertion |-> "",
      login_assertion |-> "", name_assertion |-> "", org_assertion |-> "",
      role_assertion |-> "" ]

\* d.GetOk of a string attribute: ok is false for the zero value
GetOk(v) == v # ""

\* d.GetOk of a list attribute: ok is false for the empty list
GetOkList(v) == v # <<>>

\* a nil *managedgrafana.AssertionAttributes
NilAssertionAttributes ==
    [ isNil |-> TRUE, Email |-> "", Groups |-> "", Login |-> "", Name |-> "",
      Org |-> "", Role |-> "" ]

\* &managedgrafana.AssertionAttributes{}
EmptyAssertionAttributes == [NilAssertionAttributes EXCEPT !.isNil = FALSE]

\* mutant: a new structure is made for every attribute
OrEmpty_AlwaysNew(assertionAttributes) == EmptyAssertionAttributes

\* the attributes to write a field of: a new structure when there is none yet
OrEmpty(assertionAttributes) ==
    IF assertionAttributes.isNil THEN EmptyAssertionAttributes ELSE assertionAttributes

\* Upsert, lines 124-170
ExpandAssertionAttributes(cfg) ==
    LET a0 == NilAssertionAttributes
        a1 == IF GetOk(cfg.email_assertion)
              THEN [EmptyAssertionAttributes EXCEPT !.Email = cfg.email_assertion]
              ELSE a0
        a2 == IF GetOk(cfg.groups_assertion)
              THEN [OrEmpty(a1) EXCEPT !.Groups = cfg.groups_assertion]
              ELSE a1
        a3 == IF GetOk(cfg.login_assertion)
              THEN [OrEmpty(a2) EXCEPT !.Login = cfg.login_assertion]
              ELSE a2
        a4 == IF GetOk(cfg.name_assertion)
              THEN [OrEmpty(a3) EXCEPT !.Name = cfg.name_assertion]
              ELSE a3
        a5 == IF GetOk(cfg.org_assertion)
              THEN [OrEmpty(a4) EXCEPT !.Org = cfg.org_assertion]
              ELSE a4
        a6 == IF GetOk(cfg.role_assertion)
              THEN [OrEmpty(a5) EXCEPT !.Role = cfg.role_assertion]
              ELSE a5
    IN  a6

\* no SamlConfiguration in a request
NilSamlConfiguration ==
    [ isNil |-> TRUE, Editor |-> <<>>, Admin |-> <<>>, AllowedOrganizations |-> <<>>,
      AssertionAttributes |-> NilAssertionAttributes ]

\* Upsert, lines 108-174
ExpandSamlConfiguration(cfg) ==
    [ isNil |-> FALSE,
      Editor |-> cfg.editor_role_values,
      Admin |-> IF GetOkList(cfg.admin_role_values) THEN cfg.admin_role_values ELSE <<>>,
      AllowedOrganizations |-> IF GetOkList(cfg.allowed_organizations)
                               THEN cfg.allowed_organizations ELSE <<>>,
      AssertionAttributes |-> ExpandAssertionAttributes(cfg) ]

\* mutant: the request names SAML as the only provider
UpsertInput_SamlOnly(authenticationProviders, cfg, id) ==
    [ AuthenticationProviders |-> <<"SAML">>,
      SamlConfiguration |-> ExpandSamlConfiguration(cfg),
      WorkspaceId |-> id ]

\* Upsert, lines 176-180
UpsertInput(authenticationProviders, cfg, id) ==
    [ AuthenticationProviders |-> authenticationProviders,
      SamlConfiguration |-> ExpandSamlConfiguration(cfg),
      WorkspaceId |-> id ]

\* Delete, lines 270-273
DeleteInput(authenticationProviders, id) ==
    [ AuthenticationProviders |-> authenticationProviders,
      SamlConfiguration |-> NilSamlConfiguration,
      WorkspaceId |-> id ]

NoInput == [AuthenticationProviders |-> <<>>, SamlConfiguration |-> NilSamlConfiguration, WorkspaceId |-> ""]

GrafanaErrors ==
    { ErrNotFound,
      Err("InternalServerException", MsgOther),
      Err("AccessDeniedException", MsgOther) }

\* a step of a Grafana handler: the call, its request where it has one, and
\* how it ended ("ok", an error's code, "timeout", or "inflight")
GrafanaCall(api, input, code) == [api |-> api, input |-> input, code |-> code]

CodeOf(err) == IF err = NoErr THEN "ok" ELSE err.code

\* the answers of FindSamlConfigurationByID: with or without the optional
\* AssertionAttributes structure
SamlOutputs == {[hasAssertionAttributes |-> b] : b \in BOOLEAN}

\* mutant: a new resource is treated like one that is in the state
GrafanaReadOutcome_IgnoreIsNew(id, isNew, err, saml) ==
    IF NotFound(err)
    THEN [id |-> "", diag |-> "none"]
    ELSE IF err # NoErr
    THEN [id |-> id, diag |-> "error"]
    ELSE IF ~saml.hasAssertionAttributes
    THEN [id |-> id, diag |-> "panic"]
    ELSE [id |-> id, diag |-> "none"]

\* resourceWorkspaceSamlConfigurationRead: new id and result ("panic": a nil
\* AssertionAttributes is dereferenced at line 220)
GrafanaReadOutcome(id, isNew, err, saml) ==
    IF NotFound(err) /\ ~isNew
    THEN [id |-> "", diag |-> "none"]
    ELSE IF err # NoErr
    THEN [id |-> id, diag |-> "error"]
    ELSE IF ~saml.hasAssertionAttributes
    THEN [id |-> id, diag |-> "panic"]
    ELSE [id |-> id, diag |-> "none"]

\* the fields every Grafana handler starts from
GrafanaFresh(op, id, isNew, cfg) ==
    [ pc |-> "idle", op |-> op, id |-> id, isNew |-> isNew, cfg |-> cfg,
      providers |-> <<>>, calls |-> <<>>, polls |-> 0, diag |-> "none" ]

GrafanaInit == grafana = GrafanaFresh("none", "", FALSE, NoConfig)

\* the configurations Upsert can run with: Create for a resource that is not
\* in the state, Update (workspace_id is the state's) for one that is
UpsertConfigs(id) ==
    IF id = "" THEN SamlConfigs ELSE {c \in SamlConfigs : c.workspace_id = id}

\* Upsert, lines 94-105: d.SetId and the workspace lookup
GrafanaUpsertLookup ==
    /\ svc = "grafana"
    /\ grafana.pc = "idle"
    /\ \E cfg \in UpsertConfigs(grafana.id), err \in {NoErr} \cup GrafanaErrors,
          providers \in ProviderLists :
         LET isNew == (grafana.id = "")
             d == [GrafanaFresh("upsert", cfg.workspace_id, isNew, cfg) EXCEPT
                     !.calls = <<GrafanaCall("FindWorkspaceByID", NoInput, CodeOf(err))>>]
         IN  IF NotFound(err) /\ ~isNew
             THEN grafana' = [d EXCEPT !.id = "", !.pc = "done"]
             ELSE IF err # NoErr
             THEN grafana' = [d EXCEPT !.diag = "error", !.pc = "done"]
             ELSE grafana' = [d EXCEPT !.providers = providers, !.pc = "upsert_update"]
    /\ UNCHANGED <<svc, macie, lex>>

\* Upsert, lines 176-190: UpdateWorkspaceAuthentication, then the wait starts
GrafanaUpsertUpdate ==
    /\ svc = "grafana"
    /\ grafana.pc = "upsert_update"
    /\ \E err \in {NoErr} \cup GrafanaErrors :
         LET call == GrafanaCall("UpdateWorkspaceAuthentication",
                                 UpsertInput(grafana.providers, grafana.cfg, grafana.id),
                                 CodeOf(err))
         IN  IF err # NoErr
             THEN grafana' = [grafana EXCEPT !.calls = Append(@, call),
                                             !.diag = "error", !.pc = "done"]
             ELSE grafana' = [grafana EXCEPT
                                !.calls = Append(Append(@, call),
                                                 GrafanaCall("waitWorkspaceSamlConfigurationCreated",
                                                             NoInput, "inflight")),
                                !.pc = "wait"]
    /\ UNCHANGED <<svc, macie, lex>>

\* the error a waiter returns when its timeout fires
WaitTimeoutError == [code |-> "timeout", msg |-> "timeout while waiting for state"]

\* mutant: the error of the wait is not looked at
UpsertAfterWait_IgnoreErr(err) == [pc |-> "upsert_read", diag |-> "none"]

\* Upsert, lines 188-192: an error of the wait is returned, else Read
UpsertAfterWait(err) ==
    IF err # NoErr
    THEN [pc |-> "done", diag |-> "error"]
    ELSE [pc |-> "upsert_read", diag |-> "none"]

\* Delete, lines 279-283: an error of the wait is returned, else nil
DeleteAfterWait(err) ==
    IF err # NoErr
    THEN [pc |-> "done", diag |-> "error"]
    ELSE [pc |-> "delete_done", diag |-> "none"]

\* the handler that waits goes on with the error of its wait
GrafanaWaitReturns(d, err) ==
    LET next == IF d.op = "upsert" THEN UpsertAfterWait(err) ELSE DeleteAfterWait(err)
    IN  [d EXCEPT !.calls[Len(d.calls)].code = CodeOf(err),
                  !.diag = next.diag, !.pc = next.pc]

\* one refresh of the waiter: still pending, the target state, or an error
GrafanaWaitPoll ==
    /\ svc = "grafana"
    /\ grafana.pc = "wait"
    /\ grafana.polls < MaxPolls
    /\ \E outcome \in {"pending", "target", "error"} :
         LET polled == [grafana EXCEPT !.polls = @ + 1]
         IN  CASE outcome = "pending" -> grafana' = polled
               [] outcome = "target" -> grafana' = GrafanaWaitReturns(polled, NoErr)
               [] outcome = "error" ->
                    grafana' = GrafanaWaitReturns(polled, Err("InternalServerException", MsgOther))
    /\ UNCHANGED <<svc, macie, lex>>

\* the waiter's timeout fires
GrafanaWaitTimeout ==
    /\ svc = "grafana"
    /\ grafana.pc = "wait"
    /\ grafana' = GrafanaWaitReturns(grafana, WaitTimeoutError)
    /\ UNCHANGED <<svc, macie, lex>>

\* the Read a handler runs
GrafanaApplyRead(d, err, saml) ==
    LET out == GrafanaReadOutcome(d.id, d.isNew, err, saml)
    IN  [d EXCEPT !.id = out.id, !.diag = out.diag,
                  !.calls = Append(@, GrafanaCall("FindSamlConfigurationByID", NoInput, CodeOf(err))),
                  !.pc = "done"]

\* Upsert, line 192
GrafanaUpsertRead ==
    /\ svc = "grafana"
    /\ grafana.pc = "upsert_read"
    /\ \E err \in {NoErr} \cup GrafanaErrors, saml \in SamlOutputs :
         grafana' = GrafanaApplyRead(grafana, err, saml)
    /\ UNCHANGED <<svc, macie, lex>>

\* Read of a resource that is in the state
GrafanaRead ==
    /\ svc = "grafana"
    /\ grafana.pc = "idle"
    /\ grafana.id # ""
    /\ \E err \in {NoErr} \cup GrafanaErrors, saml \in SamlOutputs :
         grafana' = GrafanaApplyRead(GrafanaFresh("read", grafana.id, FALSE, grafana.cfg), err, saml)
    /\ UNCHANGED <<svc, macie, lex>>

\* schema.ImportStatePassthrough
GrafanaImport ==
    /\ svc = "grafana"
    /\ grafana.pc = "idle"
    /\ grafana.id = ""
    /\ \E id \in WorkspaceIds :
         grafana' = [GrafanaFresh("import", id, FALSE, NoConfig) EXCEPT !.pc = "done"]
    /\ UNCHANGED <<svc, macie, lex>>

\* Delete, lines 263-267: the workspace lookup
GrafanaDeleteLookup ==
    /\ svc = "grafana"
    /\ grafana.pc = "idle"
    /\ grafana.id # ""
    /\ \E err \in {NoErr} \cup GrafanaErrors, providers \in ProviderLists :
         LET d == [GrafanaFresh("delete", grafana.id, FALSE, grafana.cfg) EXCEPT
                     !.calls = <<GrafanaCall("FindWorkspaceByID", NoInput, CodeOf(err))>>]
         IN  IF err # NoErr
             THEN grafana' = [d EXCEPT !.diag = "error", !.pc = "done"]
             ELSE grafana' = [d EXCEPT !.providers = providers, !.pc = "delete_update"]
    /\ UNCHANGED <<svc, macie, lex>>

\* mutant: the error of UpdateWorkspaceAuthentication is not looked at
GrafanaDeleteUpdate_IgnoreErr ==
    /\ svc = "grafana"
    /\ grafana.pc = "delete_update"
    /\ \E err \in {NoErr} \cup GrafanaErrors :
         grafana' = [grafana EXCEPT
                       !.calls = Append(Append(@, GrafanaCall("UpdateWorkspaceAuthentication",
                                                              DeleteInput(grafana.providers, grafana.id),
                                                              CodeOf(err))),
                                        GrafanaCall("waitWorkspaceSamlConfigurationDeleted",
                                                    NoInput, "inflight")),
                       !.pc = "wait"]
    /\ UNCHANGED <<svc, macie, lex>>

\* Delete, lines 269-281: UpdateWorkspaceAuthentication, then the wait starts
GrafanaDeleteUpdate ==
    /\ svc = "grafana"
    /\ grafana.pc = "delete_update"
    /\ \E err \in {NoErr} \cup GrafanaErrors :
         LET call == GrafanaCall("UpdateWorkspaceAuthentication",
                                 DeleteInput(grafana.providers, grafana.id), CodeOf(err))
         IN  IF err # NoErr
             THEN grafana' = [grafana EXCEPT !.calls = Append(@, call),
                                             !.diag = "error", !.pc = "done"]
             ELSE grafana' = [grafana EXCEPT
                                !.calls = Append(Append(@, call),
                                                 GrafanaCall("waitWorkspaceSamlConfigurationDeleted",
                                                             NoInput, "inflight")),
                                !.pc = "wait"]
    /\ UNCHANGED <<svc, macie, lex>>

\* Delete, line 283: return nil; the SDK then removes the resource from the
\* state
GrafanaDeleteDone ==
    /\ svc = "grafana"
    /\ grafana.pc = "delete_done"
    /\ grafana' = [grafana EXCEPT !.id = "", !.pc = "done"]
    /\ UNCHANGED <<svc, macie, lex>>

\* the handler returns to the SDK, which keeps the resource data
GrafanaReturn ==
    /\ svc = "grafana"
    /\ grafana.pc = "done"
    /\ grafana' = GrafanaFresh("none", grafana.id, FALSE, NoConfig)
    /\ UNCHANGED <<svc, macie, lex>>

GrafanaNext ==
    \/ GrafanaUpsertLookup
    \/ GrafanaUpsertUpdate
    \/ GrafanaWaitPoll
    \/ GrafanaWaitTimeout
    \/ GrafanaUpsertRead
    \/ GrafanaRead
    \/ GrafanaImport
    \/ GrafanaDeleteLookup
    \/ GrafanaDeleteUpdate
    \/ GrafanaDeleteDone
    \/ GrafanaReturn

(***************************************************************************)
(* Properties of the handlers.                                             *)
(***************************************************************************)
EnableCalls == SelectSeq(macie.calls, LAMBDA c : c.api = "Enable")

ListCalls == SelectSeq(macie.calls, LAMBDA c : c.api = "List")

\* C1: in the Macie Create a failed EnableOrganizationAdminAccount call of
\* the retry loop is followed by another call of the loop only if it failed
\* with ClientError, and a ClientError keeps the loop waiting for its next
\* attempt; any other error is the last call of Create (none follows inside
\* or outside the loop) and Create ends with an error diagnostic, no ID set.
C1_RetryIffClientError ==
    LET loop == LoopCalls(macie.calls)
        n == Len(loop)
    IN  macie.op = "create" =>
          /\ \A i \in 1..n :
               /\ (i < n) => (loop[i].code = "ClientError")
               /\ (loop[i].code \notin {"ok", "ClientError", "inflight", "abandoned"}) =>
                    /\ i = n
                    /\ macie.pc \in {"after_retry", "check_err", "done"}
                    /\ ExtraCalls(macie.calls) = <<>>
                    /\ (macie.pc = "done") => (macie.diag = "error" /\ macie.id = "")
          /\ (n > 0 /\ loop[n].code = "ClientError" /\ macie.loopEnd = "") =>
               (macie.pc = "retry_wait")

\* a Create that retried after a ClientError and was ended by another error
C1_Witness ==
    LET loop == LoopCalls(macie.calls)
    IN  /\ macie.op = "create"
        /\ macie.pc = "done"
        /\ Len(loop) >= 2
        /\ loop[1].code = "ClientError"
        /\ loop[Len(loop)].code = "AccessDeniedException"
        /\ macie.diag = "error"

\* C2: once the retry loop of the Macie Create has ended, it ended by a
\* success, a non-retryable error or the timeout; when it ended by the timeout
\* exactly one more EnableOrganizationAdminAccount call was made outside the
\* loop and Create goes on without error exactly if that call succeeded;
\* otherwise no call was made outside the loop.
C2_TimeoutThenOneMoreCall ==
    (macie.op = "create" /\ macie.pc \in {"check_err", "read", "done"}) =>
        LET extra == ExtraCalls(macie.calls)
        IN  /\ macie.loopEnd \in {"success", "nonretryable", "timeout"}
            /\ (macie.loopEnd = "timeout") =>
                 (Len(extra) = 1 /\ ((macie.err = NoErr) <=> (extra[1].code = "ok")))
            /\ (macie.loopEnd # "timeout") => (Len(extra) = 0)

\* C2, termination: a Macie Create that has started reaches its end (under
\* FairSpecMacie)
C2_CreateTerminates == (macie.op = "create") ~> (macie.pc = "done")

\* C2, what the code does: the extra call is made exactly when the timeout
\* fired before any attempt of the loop had completed
C2_ExtraCallOnlyWithoutCompletedAttempt ==
    (macie.op = "create" /\ macie.pc \in {"check_err", "read", "done"}) =>
        LET extra == ExtraCalls(macie.calls)
            loop == LoopCalls(macie.calls)
        IN  /\ Len(extra) <= 1
            /\ (Len(extra) = 1) <=>
                 (macie.loopEnd = "timeout" /\ Len(loop) = 1 /\ loop[1].code = "abandoned")

\* C8: during the Macie Create the ID is set only to the configured
\* admin_account_id and only after the last EnableOrganizationAdminAccount call
\* returned without error; a Create that ends with the error of enabling has
\* no ID set, an error diagnostic, and never called Read.
C8_IdSetOnlyAfterEnableSucceeded ==
    macie.op = "create" =>
        /\ (macie.id # "") =>
             /\ macie.id = macie.cfg
             /\ Len(EnableCalls) > 0
             /\ EnableCalls[Len(EnableCalls)].code = "ok"
        /\ (macie.pc = "done" /\ macie.err # NoErr) =>
             (macie.id = "" /\ ListCalls = <<>> /\ macie.diag = "error")

\* a Create that failed in enabling after a retry
C8_Witness ==
    /\ macie.op = "create"
    /\ macie.pc = "done"
    /\ macie.err # NoErr
    /\ Len(EnableCalls) >= 2
    /\ macie.id = ""

\* the account id is in no entry of any page
AbsentFromPages(pages, id) ==
    \A i \in 1..Len(pages) :
        \/ pages[i].isNil
        \/ \A j \in 1..Len(pages[i].AdminAccounts) :
             \/ pages[i].AdminAccounts[j].isNil
             \/ pages[i].AdminAccounts[j].AccountId # id

\* C9: after a Macie Read (of Create: new resource; of a refresh: not new)
\* whose listing ended with ResourceNotFoundException, with AccessDenied and a
\* message containing "Macie is not enabled", or without error and without
\* the account on any page: not new, the ID is cleared and there is no error
\* diagnostic; new, there is an error diagnostic and the ID is kept. After any
\* other listing error there is an error diagnostic and the ID is kept.
C9_ReadMissingAccount ==
    (macie.pc = "done" /\ macie.op \in {"create", "read"} /\ ListCalls # <<>>) =>
        LET id == ListCalls[1].AdminAccountId
            e == macie.got.err
            notFound == e.code = "ResourceNotFoundException"
            notEnabled == /\ e.code = "AccessDeniedException"
                          /\ e.msg \in {MsgNotEnabled, MsgNotEnabledLong}
            absent == e = NoErr /\ AbsentFromPages(macie.listing.pages, id)
            missing == notFound \/ notEnabled \/ absent
        IN  /\ (missing /\ ~macie.isNew) => (macie.id = "" /\ macie.diag = "none")
            /\ (missing /\ macie.isNew) => (macie.id = id /\ id # "" /\ macie.diag = "error")
            /\ (e # NoErr /\ ~notFound /\ ~notEnabled) =>
                 (macie.id = id /\ id # "" /\ macie.diag = "error")

\* the Read of a Create whose listing failed with ResourceNotFoundException
C9_Witness ==
    /\ macie.pc = "done"
    /\ macie.op = "create"
    /\ ListCalls # <<>>
    /\ macie.got.err.code = "ResourceNotFoundException"
    /\ macie.diag = "error"
    /\ macie.id # ""

\* C3: the ID a successful Lex slot Create stores is BotId, BotVersion,
\* IntentId, LocaleId, SlotId of the CreateSlot output, in this order, joined
\* by the separator; findSlotByID asks DescribeSlot for these five values,
\* and so does every Read of the resource that Create stored.
C3_SlotIdRoundTrip ==
    /\ (lex.op = "create" /\ lex.pc = "done" /\ lex.stateSet) =>
         LET o == lex.out
             key == [BotId |-> o.BotId, BotVersion |-> o.BotVersion, IntentId |-> o.IntentId,
                     LocaleId |-> o.LocaleId, SlotId |-> o.SlotId]
         IN  /\ lex.state.ID = o.BotId \o <<",">> \o o.BotVersion \o <<",">> \o o.IntentId
                                 \o <<",">> \o o.LocaleId \o <<",">> \o o.SlotId
             /\ findSlotByID(lex.state.ID, NoErr, o).calls
                  = <<[api |-> "DescribeSlot", key |-> key, code |-> "ok"]>>
             /\ lex.origin = key
    /\ (lex.op = "read" /\ lex.pc = "done" /\ lex.origin # NoKey) =>
         /\ Len(lex.calls) = 1
         /\ lex.calls[1].api = "DescribeSlot"
         /\ lex.calls[1].key = lex.origin

\* a Read of a created slot whose identifiers differ from one another
C3_Witness ==
    /\ lex.op = "read"
    /\ lex.pc = "done"
    /\ lex.origin # NoKey
    /\ lex.origin.BotId = <<"b", "1">>
    /\ lex.origin.SlotId = <<"s">>
    /\ Len(lex.calls) = 1

\* C4: the five identifiers of the DeleteSlot request are the five parts of
\* the state ID, the values findSlotByID sends to DescribeSlot for that ID.
C4_DeleteUsesDecodedId ==
    (lex.op = "delete" /\ lex.pc = "done") =>
        LET found == findSlotByID(lex.prior.ID, NoErr, NilOutput)
        IN  (found.calls # <<>>) =>
              /\ Len(lex.calls) = 1
              /\ lex.calls[1].api = "DeleteSlot"
              /\ lex.calls[1].key = found.calls[1].key

\* C7: a Lex slot Update that stored the plan as the new state called
\* UpdateSlot, without error, whenever the plan differs from the prior state
\* in description, slot_type_id, multiple_values_setting, obfuscation_setting
\* or value_elicitation_setting.
C7_UpdateSendsEveryChange ==
    (lex.op = "update" /\ lex.pc = "done" /\ lex.stateSet) =>
        LET changed ==
              \/ lex.plan.Description # lex.prior.Description
              \/ lex.plan.SlotTypeID # lex.prior.SlotTypeID
              \/ lex.plan.MultipleValuesSetting # lex.prior.MultipleValuesSetting
              \/ lex.plan.ObfuscationSetting # lex.prior.ObfuscationSetting
              \/ lex.plan.ValueElicitationSettings # lex.prior.ValueElicitationSettings
        IN  changed =>
              /\ Len(lex.calls) = 1
              /\ lex.calls[1].api = "UpdateSlot"
              /\ lex.calls[1].code = "ok"

GrafanaUpsertOrder ==
    << "FindWorkspaceByID", "UpdateWorkspaceAuthentication",
       "waitWorkspaceSamlConfigurationCreated", "FindSamlConfigurationByID" >>

GrafanaDeleteOrder ==
    << "FindWorkspaceByID", "UpdateWorkspaceAuthentication",
       "waitWorkspaceSamlConfigurationDeleted" >>

\* C5: the steps of the Grafana Upsert are, in this order, the workspace
\* lookup, UpdateWorkspaceAuthentication, the wait for the created state and
\* Read; the wait starts only after the update call succeeded and Read only
\* after the wait succeeded; an Upsert whose update call or wait failed or
\* timed out has ended with an error and without Read.
C5_UpsertOrder ==
    grafana.op = "upsert" =>
        LET c == grafana.calls
        IN  /\ Len(c) <= 4
            /\ \A i \in 1..Len(c) : c[i].api = GrafanaUpsertOrder[i]
            /\ \A i \in 2..Len(c) : c[i - 1].code = "ok"
            /\ (Len(c) \in {2, 3} /\ c[Len(c)].code \notin {"ok", "inflight"}) =>
                 (grafana.pc = "done" /\ grafana.diag = "error")

\* an Upsert whose wait timed out
C5_Witness ==
    /\ grafana.op = "upsert"
    /\ grafana.pc = "done"
    /\ Len(grafana.calls) = 3
    /\ grafana.calls[3].code = "timeout"
    /\ grafana.diag = "error"

\* C6: the steps of the Grafana Delete are the workspace lookup,
\* UpdateWorkspaceAuthentication and the wait for the deleted state; the wait
\* starts only after the update call succeeded; Delete returns without error
\* exactly when all three succeeded, and with an error otherwise.
C6_DeleteOrder ==
    grafana.op = "delete" =>
        LET c == grafana.calls
        IN  /\ Len(c) <= 3
            /\ \A i \in 1..Len(c) : c[i].api = GrafanaDeleteOrder[i]
            /\ \A i \in 2..Len(c) : c[i - 1].code = "ok"
            /\ (grafana.pc = "done") =>
                 /\ grafana.diag \in {"none", "error"}
                 /\ (grafana.diag = "none") <=> (Len(c) = 3 /\ c[3].code = "ok")

\* a Delete whose update call failed: no wait
C6_Witness ==
    /\ grafana.op = "delete"
    /\ grafana.pc = "done"
    /\ Len(grafana.calls) = 2
    /\ grafana.calls[2].code = "AccessDeniedException"
    /\ grafana.diag = "error"

\* C10: a Macie Delete and a Lex slot Delete each make exactly one delete
\* call; Macie Delete returns no error exactly when the call succeeded or
\* failed with ResourceNotFoundException or with AccessDenied and a message
\* containing "Macie is not enabled"; Lex slot Delete returns no error exactly
\* when the call succeeded or failed with ResourceNotFoundException.
C10_DeleteAbsentIsSuccess ==
    /\ (macie.op = "delete" /\ macie.pc = "done") =>
         /\ Len(macie.calls) = 1
         /\ macie.calls[1].api = "Disable"
         /\ macie.diag \in {"none", "error"}
         /\ (macie.diag = "none") <=>
              \/ macie.err = NoErr
              \/ macie.err.code = "ResourceNotFoundException"
              \/ /\ macie.err.code = "AccessDeniedException"
                 /\ macie.err.msg \in {MsgNotEnabled, MsgNotEnabledLong}
    /\ (lex.op = "delete" /\ lex.pc = "done") =>
         /\ Len(lex.calls) = 1
         /\ lex.calls[1].api = "DeleteSlot"
         /\ lex.diag \in {"none", "error"}
         /\ (lex.diag = "none") <=>
              (lex.err = NoErr \/ lex.err.code = "ResourceNotFoundException")

\* a Macie Delete that found Macie not enabled
C10_Witness ==
    /\ macie.op = "delete"
    /\ macie.pc = "done"
    /\ macie.err = Err("AccessDeniedException", MsgNotEnabledLong)
    /\ macie.diag = "none"
    /\ macie.id = ""

\* C11 as stated: after a Lex slot Read, a DescribeSlot that failed with
\* ResourceNotFoundException has removed the resource from the state with no
\* error diagnostic; an ID that does not parse into five parts, another API
\* error or an empty output has added an error diagnostic and left the state
\* as it was, neither removed nor rewritten.
C11_ReadNotFoundElseError ==
    (lex.op = "read" /\ lex.pc = "done") =>
        LET parsed == lex.calls # <<>>
            notFound == parsed /\ lex.calls[1].code = "ResourceNotFoundException"
            emptyOutput == parsed /\ lex.calls[1].code = "ok" /\ lex.out.isNil
            otherError == parsed /\ lex.calls[1].code \notin {"ok", "ResourceNotFoundException"}
        IN  /\ notFound => (~lex.hasState /\ lex.diag = "none")
            /\ (~parsed \/ otherError \/ emptyOutput) =>
                 /\ lex.diag = "error"
                 /\ lex.hasState
                 /\ lex.state = lex.prior
                 /\ ~lex.stateSet

\* C11 as the code has it: an empty output counts as not-found. After a Lex
\* slot Read, a DescribeSlot that failed with ResourceNotFoundException or
\* answered with an empty output has removed the resource from the state with
\* no error diagnostic; an ID that does not parse into five parts or another
\* API error has added an error diagnostic and left the state as it was.
C11_ReadNotFoundOrEmptyElseError ==
    (lex.op = "read" /\ lex.pc = "done") =>
        LET parsed == lex.calls # <<>>
            notFound == parsed /\ lex.calls[1].code = "ResourceNotFoundException"
            emptyOutput == parsed /\ lex.calls[1].code = "ok" /\ lex.out.isNil
            otherError == parsed /\ lex.calls[1].code \notin {"ok", "ResourceNotFoundException"}
        IN  /\ (notFound \/ emptyOutput) => (~lex.hasState /\ lex.diag = "none")
            /\ (~parsed \/ otherError) =>
                 /\ lex.diag = "error"
                 /\ lex.hasState
                 /\ lex.state = lex.prior
                 /\ ~lex.stateSet

\* a Read whose DescribeSlot answered without error and without output: the
\* resource is removed from the state
C11_Witness ==
    /\ lex.op = "read"
    /\ lex.pc = "done"
    /\ Len(lex.calls) = 1
    /\ lex.calls[1].code = "ok"
    /\ lex.out.isNil
    /\ lex.err = ErrEmptyResult
    /\ ~lex.hasState
    /\ lex.diag = "none"

\* C12: a Lex slot Update has called UpdateSlot, once, exactly when the plan
\* differs from the prior state in description, name, slot_type_id or
\* obfuscation_setting; when none of the four differs it has made no call and
\* has stored the plan as the new state, without error.
C12_UpdateSlotIffChanged ==
    (lex.op = "update" /\ lex.pc = "done") =>
        LET differs ==
              \/ lex.plan.Description # lex.prior.Description
              \/ lex.plan.Name # lex.prior.Name
              \/ lex.plan.SlotTypeID # lex.prior.SlotTypeID
              \/ lex.plan.ObfuscationSetting # lex.prior.ObfuscationSetting
        IN  /\ Len(lex.calls) <= 1
            /\ differs <=> (Len(lex.calls) = 1 /\ lex.calls[1].api = "UpdateSlot")
            /\ ~differs =>
                 /\ lex.calls = <<>>
                 /\ lex.stateSet
                 /\ lex.state = lex.plan
                 /\ lex.diag = "none"

\* an Update whose plan differs in obfuscation_setting alone of the four: it
\* called UpdateSlot
C12_Witness ==
    /\ lex.op = "update"
    /\ lex.pc = "done"
    /\ lex.plan.ObfuscationSetting # lex.prior.ObfuscationSetting
    /\ lex.plan.Description = lex.prior.Description
    /\ lex.plan.SlotTypeID = lex.prior.SlotTypeID
    /\ Len(lex.calls) = 1
    /\ lex.calls[1].api = "UpdateSlot"

\* C13: a Lex slot Create or Update whose CreateSlot or UpdateSlot call
\* returned an error or an empty output has added an error diagnostic and has
\* not set the response state: there is no state after such a Create and the
\* prior state after such an Update; a handler that set the state added no
\* error diagnostic and, where it made a call, got an output without error.
C13_StateWrittenOnlyOnSuccess ==
    (lex.op \in {"create", "update"} /\ lex.pc = "done") =>
        LET called == lex.calls # <<>>
            failed == called /\ (lex.calls[1].code # "ok" \/ lex.out.isNil)
        IN  /\ (lex.op = "create") => (called /\ lex.calls[1].api = "CreateSlot")
            /\ (lex.op = "update" /\ called) => (lex.calls[1].api = "UpdateSlot")
            /\ failed =>
                 /\ lex.diag = "error"
                 /\ ~lex.stateSet
                 /\ (lex.op = "create") => ~lex.hasState
                 /\ (lex.op = "update") => (lex.hasState /\ lex.state = lex.prior)
            /\ lex.stateSet => (lex.diag = "none" /\ ~failed)

\* an Update whose UpdateSlot answered with an empty output: the prior state
\* stays, the plan is not stored
C13_Witness ==
    /\ lex.op = "update"
    /\ lex.pc = "done"
    /\ Len(lex.calls) = 1
    /\ lex.calls[1].code = "ok"
    /\ lex.out.isNil
    /\ lex.diag = "error"
    /\ lex.state = lex.prior
    /\ lex.plan # lex.prior

\* the UpdateWorkspaceAuthentication requests of the Grafana handler
UpdateAuthInputs ==
    LET c == SelectSeq(grafana.calls, LAMBDA x : x.api = "UpdateWorkspaceAuthentication")
    IN  [i \in 1..Len(c) |-> c[i].input]

\* C14: every UpdateWorkspaceAuthentication request of a Grafana Upsert or
\* Delete comes after a successful workspace lookup of the same call and
\* carries the AuthenticationProviders that lookup read; the request of
\* Upsert carries a SamlConfiguration, the request of Delete carries none.
C14_ProvidersUnchanged ==
    (grafana.op \in {"upsert", "delete"}) =>
        \A i \in 1..Len(UpdateAuthInputs) :
            /\ grafana.calls[1].api = "FindWorkspaceByID"
            /\ grafana.calls[1].code = "ok"
            /\ UpdateAuthInputs[i].AuthenticationProviders = grafana.providers
            /\ grafana.providers \in ProviderLists
            /\ (grafana.op = "upsert") <=> ~UpdateAuthInputs[i].SamlConfiguration.isNil
            /\ (grafana.op = "delete") <=> UpdateAuthInputs[i].SamlConfiguration.isNil

\* an Upsert on a workspace with two providers: both are in the request
C14_Witness ==
    /\ grafana.op = "upsert"
    /\ Len(UpdateAuthInputs) = 1
    /\ grafana.providers = <<"AWS_SSO", "SAML">>
    /\ UpdateAuthInputs[1].AuthenticationProviders = <<"AWS_SSO", "SAML">>
    /\ ~UpdateAuthInputs[1].SamlConfiguration.isNil

\* C15: a Grafana Upsert whose workspace lookup reported not-found has made
\* no other call: not new, the ID is cleared and no error is returned; new, an
\* error is returned. A Grafana Read (after Upsert, or a refresh) whose
\* FindSamlConfigurationByID reported not-found: not new, the ID is cleared
\* and no error is returned; new, an error is returned and the ID is kept.
C15_NotFoundByIsNew ==
    LET c == grafana.calls
        n == Len(c)
    IN  /\ (grafana.op = "upsert" /\ n >= 1 /\ c[1].code = ErrNotFound.code) =>
             /\ n = 1
             /\ grafana.pc = "done"
             /\ ~grafana.isNew => (grafana.id = "" /\ grafana.diag = "none")
             /\ grafana.isNew => (grafana.diag = "error")
        /\ ( /\ grafana.op \in {"upsert", "read"}
             /\ n >= 1
             /\ c[n].api = "FindSamlConfigurationByID"
             /\ c[n].code = ErrNotFound.code ) =>
             /\ grafana.pc = "done"
             /\ ~grafana.isNew => (grafana.id = "" /\ grafana.diag = "none")
             /\ grafana.isNew => (grafana.id # "" /\ grafana.diag = "error")

\* the Read of a Create that found no SAML configuration: an error
C15_Witness ==
    /\ grafana.op = "upsert"
    /\ grafana.isNew
    /\ Len(grafana.calls) = 4
    /\ grafana.calls[4].code = ErrNotFound.code
    /\ grafana.diag = "error"
    /\ grafana.id # ""

\* C19: the SamlConfiguration of the request of a Grafana Upsert has an
\* AssertionAttributes structure exactly when one of email_assertion,
\* groups_assertion, login_assertion, name_assertion, org_assertion and
\* role_assertion is set; every attribute of it has its configured value and
\* is absent ("") when not set.
C19_AssertionAttributes ==
    (grafana.op = "upsert") =>
        \A i \in 1..Len(UpdateAuthInputs) :
            LET aa == UpdateAuthInputs[i].SamlConfiguration.AssertionAttributes
                cfg == grafana.cfg
                anySet == \/ cfg.email_assertion # ""
                          \/ cfg.groups_assertion # ""
                          \/ cfg.login_assertion # ""
                          \/ cfg.name_assertion # ""
                          \/ cfg.org_assertion # ""
                          \/ cfg.role_assertion # ""
            IN  /\ ~aa.isNil <=> anySet
                /\ aa.Email = cfg.email_assertion
                /\ aa.Groups = cfg.groups_assertion
                /\ aa.Login = cfg.login_assertion
                /\ aa.Name = cfg.name_assertion
                /\ aa.Org = cfg.org_assertion
                /\ aa.Role = cfg.role_assertion

\* an Upsert with email_assertion and role_assertion set and groups_assertion
\* not set: the first is still there after the last was added
C19_Witness ==
    /\ grafana.op = "upsert"
    /\ Len(UpdateAuthInputs) = 1
    /\ grafana.cfg.email_assertion = "x"
    /\ grafana.cfg.groups_assertion = ""
    /\ grafana.cfg.role_assertion = "x"
    /\ UpdateAuthInputs[1].SamlConfiguration.AssertionAttributes.Email = "x"
    /\ UpdateAuthInputs[1].SamlConfiguration.AssertionAttributes.Role = "x"

\* the account at entry j of page i is a non-nil entry of a non-nil page with
\* the account id
IsMatchAt(pages, i, j, id) ==
    /\ i \in 1..Len(pages)
    /\ ~pages[i].isNil
    /\ j \in 1..Len(pages[i].AdminAccounts)
    /\ ~pages[i].AdminAccounts[j].isNil
    /\ pages[i].AdminAccounts[j].AccountId = id

\* no entry before entry j of page i, in page order and then in order within
\* the page, is a match
NoMatchBefore(pages, i, j, id) ==
    /\ \A p \in 1..(i - 1) : \A k \in 1..Len(pages[p].AdminAccounts) :
           ~IsMatchAt(pages, p, k, id)
    /\ \A k \in 1..(j - 1) : ~IsMatchAt(pages, i, k, id)

\* C16: for the listing a Macie Read got its answer from: when the first
\* match, in page order and then in order within the page, is on a page the
\* listing reaches without a failed request, GetOrganizationAdminAccount
\* returned that account without error and requested no page after it; when
\* a request fails before any match, it returned that error and no account;
\* when no entry matches and no request fails, it requested every page and
\* returned nil without error. Nil pages and nil entries do not count and do
\* not end the search.
C16_FirstMatchInPageOrder ==
    (macie.pc = "done" /\ macie.op \in {"create", "read"} /\ ListCalls # <<>>) =>
        LET id == ListCalls[1].AdminAccountId
            pages == macie.listing.pages
            failAt == macie.listing.failAt
            got == macie.got
            failsBy(i) == failAt # 0 /\ failAt <= i
        IN  /\ \A i \in 1..Len(pages) : \A j \in 1..Len(pages[i].AdminAccounts) :
                 (IsMatchAt(pages, i, j, id) /\ NoMatchBefore(pages, i, j, id) /\ ~failsBy(i)) =>
                     /\ got.res = pages[i].AdminAccounts[j]
                     /\ got.err = NoErr
                     /\ got.fetched = i
            /\ (failsBy(Len(pages)) /\ NoMatchBefore(pages, failAt, 1, id)) =>
                 /\ got.res = NilAccount
                 /\ got.err = macie.listing.failErr
                 /\ got.fetched = failAt
            /\ (~failsBy(Len(pages)) /\ AbsentFromPages(pages, id)) =>
                 /\ got.res = NilAccount
                 /\ got.err = NoErr
                 /\ got.fetched = Len(pages)

\* a Read whose listing has a nil first page and a second page with a nil
\* entry before the account: the account is found on the second page
C16_Witness ==
    /\ macie.pc = "done"
    /\ macie.op = "read"
    /\ ListCalls # <<>>
    /\ Len(macie.listing.pages) = 2
    /\ macie.listing.failAt = 0
    /\ macie.listing.pages[1] = NilPage
    /\ macie.listing.pages[2] = Page(<<NilAccount, Account("111", "ENABLED")>>)
    /\ macie.got.res = Account("111", "ENABLED")
    /\ macie.got.fetched = 2

\* C17: every EnableOrganizationAdminAccount call of a Macie Create, in the
\* retry loop or after the timeout, carries the configured admin account id
\* and the ClientToken generated at the start of the Create; any two calls of
\* one Create carry the same values.
C17_SameInputOnEveryAttempt ==
    (macie.op = "create") =>
        /\ \A i \in 1..Len(EnableCalls) :
             /\ EnableCalls[i].AdminAccountId = macie.cfg
             /\ EnableCalls[i].ClientToken = macie.token
             /\ EnableCalls[i].ClientToken \in Tokens
        /\ \A i, j \in 1..Len(EnableCalls) :
             /\ EnableCalls[i].AdminAccountId = EnableCalls[j].AdminAccountId
             /\ EnableCalls[i].ClientToken = EnableCalls[j].ClientToken

\* a Create that made an attempt in the loop and the attempt after the
\* timeout
C17_Witness ==
    /\ macie.op = "create"
    /\ Len(LoopCalls(macie.calls)) = 1
    /\ Len(ExtraCalls(macie.calls)) = 1
    /\ EnableCalls[1].ClientToken = EnableCalls[2].ClientToken
    /\ EnableCalls[2].ClientToken = "tok2"

\* C18: after a Macie Read (of Create, or of a resource in the state, as
\* after an import) that returned without error and kept the ID,
\* admin_account_id is the ID, and it is the AccountId of the account that
\* GetOrganizationAdminAccount returned.
C18_AdminAccountIdIsId ==
    ( /\ macie.pc = "done"
      /\ macie.op \in {"create", "read"}
      /\ ListCalls # <<>>
      /\ macie.diag = "none"
      /\ macie.id # "" ) =>
        /\ macie.attr = macie.id
        /\ ~macie.got.res.isNil
        /\ macie.got.res.AccountId = macie.id

\* the Read of an imported resource (no configuration) that found its account
C18_Witness ==
    /\ macie.pc = "done"
    /\ macie.op = "read"
    /\ macie.cfg = ""
    /\ ListCalls # <<>>
    /\ macie.diag = "none"
    /\ macie.id = "222"
    /\ macie.attr = "222"

(***************************************************************************)
(* Specifications.                                                         *)
(***************************************************************************)
InitMacie == svc = "macie" /\ MacieInit /\ LexInit /\ GrafanaInit

SpecMacie == InitMacie /\ [][MacieNext]_vars

\* the handler steps are run to completion by the provider
FairSpecMacie == SpecMacie /\ WF_vars(MacieNext)

InitLex == svc = "lex" /\ MacieInit /\ LexInit /\ GrafanaInit

SpecLex == InitLex /\ [][LexNext]_vars

InitGrafana == svc = "grafana" /\ MacieInit /\ LexInit /\ GrafanaInit

SpecGrafana == InitGrafana /\ [][GrafanaNext]_vars

\* every resource
Init == InitMacie \/ InitLex \/ InitGrafana

Next == MacieNext \/ LexNext \/ GrafanaNext

Spec == Init /\ [][Next]_vars

====
